---- MODULE Spec2Model ----
(***************************************************************************)
(* A model of the experiment harness of the rmse repository:               *)
(*   scripts/makespan.py                    main, init_output_files,       *)
(*                                          run_simulation                 *)
(*   scripts/generate_jobs.py               generate_jobs                  *)
(*   scripts/generate_machines.py           generate_machines              *)
(*   scripts/analyze_scheduler_performance.py  extract_backfill_stats      *)
(* The file system is one function from path to content; the simulator     *)
(* (batsim) is the environment: it may fail to launch, exit with any       *)
(* status and leave anything in out/schedule.csv.                          *)
(***************************************************************************)
EXTENDS Integers, Sequences, FiniteSets, TLC

VARIABLES
    num_sims, num_jobs, num_machines, algorithms,  \* args of main (makespan.py:79-86)
    pc,            \* position of the script
    i,             \* loop variable of `for i in range(args.num_sims)`
    k,             \* 1-based position of `algorithm` in args.algorithms
    fs,            \* the file system: path -> content
    cmd,           \* the argument list of the last subprocess.run
    inflight,      \* simulator processes started and not yet exited
    status,        \* how the last subprocess.run ended
    makespan,      \* what run_simulation returned / main's local `makespan`
    attempts,      \* subprocess.run calls made by the current run_simulation call
    reads,         \* opens of out/schedule.csv made by the current call
    job_writes,    \* writes of the workload file made so far by generate_jobs
    generated,     \* the job set written by the generate_jobs call of this iteration
    machines_written, \* the path generate_machines returned in this iteration
    input,         \* the input of the pure function under check
    output,        \* its result
    stats          \* the counters analyze_scheduler_performance goes on with

vars == <<num_sims, num_jobs, num_machines, algorithms, pc, i, k, fs, cmd,
          inflight, status, makespan, attempts, reads, job_writes, generated,
          machines_written, input, output, stats>>

----------------------------------------------------------------------------
(* Bounds of the model *)

MaxSims == 2          \* num_sims ranges over 0..MaxSims
DrawSpan == 1         \* each random draw takes its lowest 1+DrawSpan values
MaxJobs == 2          \* num_jobs of a lone generate_jobs call: 0..MaxJobs
MaxHosts == 3         \* max_hosts of a lone generate_jobs call: 0..MaxHosts
MaxRows == 2          \* data records of a result summary: 0..MaxRows
MaxTokens == 4        \* space-separated pieces of a backfill log line: 0..MaxTokens
MaxTrials == 2        \* trials in the logs handed to plot_makespan.py: 0..MaxTrials

(* --num-jobs and --num-machines of the driver: below 1 and at least 1 *)
NumJobsArgs == {0, 1}
NumMachinesArgs == {0, 1}

(* Program constants *)

ResBias == 3          \* random.randint(1, min(3, max_hosts))
WalltimeLo == 5       \* random.randint(5, 30)
WalltimeHi == 30
SubtimeHi == 10       \* random.randint(0, 10)
HeaderLines == 3      \* init_output_files writes three comment lines
SkippedLines == 3     \* read_makespan_data: for _ in range(3): next(f)
Threshold == 300      \* mask = (data1 > 300) & (data2 > 300)
RtolInverse == 10000  \* np.isclose(..., rtol=0.0001)

Min(a, b) == IF a < b THEN a ELSE b

----------------------------------------------------------------------------
(* Python values *)

None == [tag |-> "None"]
Float(v) == [tag |-> "float", val |-> v]
Raised(e) == [tag |-> "raise", exc |-> e]
NoFile == [kind |-> "absent"]

(* str(n) of a non-negative int *)
Digit == <<"0", "1", "2", "3", "4", "5", "6", "7", "8", "9">>

RECURSIVE Str(_)
Str(n) == IF n < 10 THEN Digit[n + 1] ELSE Str(n \div 10) \o Digit[(n % 10) + 1]

(* str(x) of a float holding a whole number: "7.0" *)
FloatRepr(v) == Str(v) \o ".0"

(* float(text): the texts the model draws from, and the ones float accepts *)
FloatTable == [t \in {"0", "7"} |-> IF t = "0" THEN 0 ELSE 7]
FieldTexts == {"0", "7", "x"}

float(text) ==
    IF text \in DOMAIN FloatTable THEN Float(FloatTable[text]) ELSE Raised("ValueError")

----------------------------------------------------------------------------
(* The file system *)

Exists(f, path) == path \in DOMAIN f
Write(f, path, content) ==
    [q \in DOMAIN f \cup {path} |-> IF q = path THEN content ELSE f[q]]
ReadFile(f, path) == IF Exists(f, path) THEN f[path] ELSE NoFile

JobFile == "assets/generated/gen.json"              \* makespan.py:36
TestMachinesFile == "assets/test/machines_5.xml"    \* makespan.py:39
ScheduleFile == "out/schedule.csv"                  \* makespan.py:60
MakespanLog(algorithm) == "res/makespan/" \o algorithm \o "_temp.txt"
BackfillLog(algorithm) == "res/backfill/" \o algorithm \o "_temp.txt"
MachinesPath(output_dir, n) == output_dir \o "/machines_" \o Str(n) \o ".xml"

----------------------------------------------------------------------------
(* scripts/generate_jobs.py *)

(* the values random.randint(1, min(3, max_hosts)) can return *)
ResRangeUnclamped(max_hosts) == 1..ResBias
ResRange(max_hosts) == 1..Min(ResBias, max_hosts)

(* one job's random draws, each range cut to its lowest 1+DrawSpan values *)
DrawSet(max_hosts) ==
    [res : ResRange(max_hosts),
     walltime : WalltimeLo..Min(WalltimeHi, WalltimeLo + DrawSpan),
     subtime : 0..Min(SubtimeHi, DrawSpan)]

Draws(n, max_hosts) ==
    IF n < 1 \/ DrawSet(max_hosts) = {} THEN {<<>>} ELSE [1..n -> DrawSet(max_hosts)]

(* the body of `for i in range(1, num_jobs + 1)`, from job j on *)
RECURSIVE gen_loop(_, _, _, _, _)
gen_loop(j, n, draws, jobs, profiles) ==
    IF j > n THEN [jobs |-> jobs, profiles |-> profiles]
    ELSE LET res == draws[j].res
             walltime == draws[j].walltime
             subtime == IF j = 1 THEN 0 ELSE draws[j].subtime
             job == [id |-> "job" \o Str(j), profile |-> "delay" \o Str(j),
                     res |-> res, walltime |-> walltime, subtime |-> subtime]
             pid == "delay" \o Str(j)
         IN gen_loop(j + 1, n, draws, Append(jobs, job),
                     [q \in DOMAIN profiles \cup {pid} |->
                        IF q = pid THEN [delay |-> walltime, type |-> "delay"]
                        ELSE profiles[q]])

(* generate_jobs up to json.dump: the job set, or the exception randint raises *)
generate_jobs(n, max_hosts, draws) ==
    IF n >= 1 /\ ResRange(max_hosts) = {} THEN Raised("ValueError")
    ELSE LET r == gen_loop(1, n, draws, <<>>, [q \in {} |-> 0])
         IN [kind |-> "json",
             description |-> Str(n) \o " jobs with varied resource requirements (max "
                             \o Str(max_hosts) \o " hosts) and execution times",
             nb_res |-> max_hosts * 2,
             jobs |-> r.jobs,
             profiles |-> r.profiles]

(* scripts/generate_machines.py *)
generate_machines(n) ==
    [kind |-> "xml",
     zone |-> "machines_" \o Str(n),
     hosts |-> [j \in 1..(IF n > 0 THEN n ELSE 0) |->
                  [id |-> "node_" \o Str(j - 1), speed |-> "10Gf"]]
              \o <<[id |-> "master_host", speed |-> "100Mf"]>>]

----------------------------------------------------------------------------
(* scripts/makespan.py *)

Algorithms == {"basic", "best_cont"}
(* the lists --algorithms can carry (nargs='+'): one or two names, repeats allowed *)
AlgorithmLists == {<<a>> : a \in Algorithms} \cup {<<a, b>> : a, b \in Algorithms}

Header(what, algorithm, fmt) ==
    <<<<"#", what, "values", "for", algorithm, "algorithm">>,
      <<"#", "Number", "of", "jobs:", Str(num_jobs) \o ",", "Number", "of",
        "machines:", Str(num_machines)>>,
      <<"#", "Format:", "simulation_number,">> \o fmt>>

RECURSIVE init_output_files(_, _)
init_output_files(f, algs) ==
    IF algs = <<>> THEN f
    ELSE LET a == Head(algs)
             f1 == Write(f, MakespanLog(a),
                         [kind |-> "text", lines |-> Header("Makespan", a, <<"makespan">>)])
             f2 == Write(f1, BackfillLog(a),
                         [kind |-> "text",
                          lines |-> Header("Backfill", a,
                                           <<"total_backfills,", "contiguous_backfills,",
                                             "non_contiguous_backfills">>)])
         IN init_output_files(f2, Tail(algs))

(* the command line run_simulation builds *)
Command(algorithm, n_machines) ==
    [lib |-> "./build/lib" \o algorithm \o ".so",
     machines_file |-> TestMachinesFile,
     job_file |-> JobFile]

(* subprocess.run(cmd, check=True, ...): where the script is once the call is made *)
subprocess_run_failread(launched) == IF launched THEN "running" ELSE "read"
subprocess_run_nowait(launched) == IF launched THEN "read" ELSE "append"
subprocess_run(launched) == IF launched THEN "running" ELSE "append"

(* check=True: the exit statuses that raise CalledProcessError *)
CalledProcessErrorPositive(returncode) == returncode > 0
CalledProcessError(returncode) == returncode # 0

ExitCodes == {0, 1, -9}

(* lines 59-75: the read of out/schedule.csv *)
Row(text) == [makespan |-> text]
RowWithoutMakespan == [mean_waiting_time |-> "0"]
RowKinds == {Row(t) : t \in FieldTexts} \cup {RowWithoutMakespan}
Csv(rows) == [kind |-> "csv", rows |-> rows]

read_schedule_KeyError(file) ==
    IF file = NoFile THEN None
    ELSE IF file.rows = <<>> THEN None
    ELSE LET row == file.rows[1]
         IN IF "makespan" \notin DOMAIN row THEN Raised("KeyError")
            ELSE IF float(row.makespan).tag = "raise" THEN None
            ELSE float(row.makespan)

read_schedule(file) ==
    IF file = NoFile THEN None                \* open raises, caught at line 71
    ELSE IF file.rows = <<>> THEN None        \* the loop body never runs: line 75
    ELSE LET row == file.rows[1]
         IN IF "makespan" \notin DOMAIN row THEN None   \* KeyError, caught
            ELSE IF float(row.makespan).tag = "raise" THEN None  \* ValueError, caught
            ELSE float(row.makespan)

(* lines 106-114: the line main appends for trial i *)
log_line_truthy(trial, m) ==
    IF m # None /\ m.val # 0 THEN <<Str(trial + 1), FloatRepr(m.val)>>
    ELSE <<Str(trial + 1), "FAILED">>
log_line(trial, m) ==
    IF m # None THEN <<Str(trial + 1), FloatRepr(m.val)>>
    ELSE <<Str(trial + 1), "FAILED">>

AppendLine(f, path, line) ==
    Write(f, path, [kind |-> "text",
                    lines |-> (IF Exists(f, path) THEN f[path].lines ELSE <<>>) \o <<line>>])

(* the two for loops of main: where the script goes after the append *)
next_step_short(trial, pos, n_algs, n_sims) ==
    IF pos < n_algs THEN [i |-> trial, k |-> pos + 1, pc |-> "call"]
    ELSE IF trial + 1 < n_sims - 1 THEN [i |-> trial + 1, k |-> 1, pc |-> "gen"]
    ELSE [i |-> trial + 1, k |-> 1, pc |-> "done"]
next_step_regen(trial, pos, n_algs, n_sims) ==
    IF pos < n_algs THEN [i |-> trial, k |-> pos + 1, pc |-> "gen"]
    ELSE IF trial + 1 < n_sims THEN [i |-> trial + 1, k |-> 1, pc |-> "gen"]
    ELSE [i |-> trial + 1, k |-> 1, pc |-> "done"]
next_step(trial, pos, n_algs, n_sims) ==
    IF pos < n_algs THEN [i |-> trial, k |-> pos + 1, pc |-> "call"]
    ELSE IF trial + 1 < n_sims THEN [i |-> trial + 1, k |-> 1, pc |-> "gen"]
    ELSE [i |-> trial + 1, k |-> 1, pc |-> "done"]

----------------------------------------------------------------------------
(* The state after argument parsing, before init_output_files *)

IsRaised(v) == "tag" \in DOMAIN v /\ v.tag = "raise"

NoStatus == [kind |-> "none"]
LaunchFailure == [kind |-> "launch_failure"]
Exited(code) == [kind |-> "exit", code |-> code]
NoCommand == [lib |-> "", machines_file |-> "", job_file |-> ""]
EmptyFs == [q \in {} |-> NoFile]

Init ==
    /\ num_sims \in 0..MaxSims
    /\ num_jobs \in NumJobsArgs
    /\ num_machines \in NumMachinesArgs
    /\ algorithms \in AlgorithmLists
    /\ pc = "start"
    /\ i = 0
    /\ k = 1
    /\ fs = EmptyFs
    /\ cmd = NoCommand
    /\ inflight = 0
    /\ status = NoStatus
    /\ makespan = None
    /\ attempts = 0
    /\ reads = 0
    /\ job_writes = 0
    /\ generated = NoFile
    /\ machines_written = ""
    /\ input = <<>>
    /\ output = <<>>
    /\ stats = <<>>

(* main, line 88 *)
Main_InitOutputFiles ==
    /\ pc = "start"
    /\ fs' = init_output_files(fs, algorithms)
    /\ pc' = IF num_sims > 0 THEN "gen" ELSE "done"
    /\ UNCHANGED <<stats, num_sims, num_jobs, num_machines, algorithms, i, k, cmd, inflight,
                   status, makespan, attempts, reads, job_writes, generated,
                   machines_written, input, output>>

(* main, lines 92-93: generate_jobs, then generate_machines *)
Main_Generate ==
    /\ pc = "gen"
    /\ \E draws \in Draws(num_jobs, num_machines) :
         LET job_set == generate_jobs(num_jobs, num_machines, draws)
             output_file == MachinesPath("assets/generated/machines", num_machines)
         IN IF IsRaised(job_set)
            THEN /\ pc' = "aborted"
                 /\ UNCHANGED <<fs, job_writes, generated, machines_written>>
            ELSE /\ fs' = Write(Write(fs, "assets/generated/" \o "gen.json", job_set),
                                output_file, generate_machines(num_machines))
                 /\ job_writes' = job_writes + 1
                 /\ generated' = job_set
                 /\ machines_written' = output_file
                 /\ pc' = "call"
    /\ UNCHANGED <<stats, num_sims, num_jobs, num_machines, algorithms, i, k, cmd, inflight,
                   status, makespan, attempts, reads, input, output>>

(* run_simulation, lines 36-57: the command is built and subprocess.run called *)
RunSimulation_Launch ==
    /\ pc = "call"
    /\ cmd' = Command(algorithms[k], num_machines)
    /\ attempts' = attempts + 1
    /\ \E launched \in BOOLEAN :
         /\ pc' = subprocess_run(launched)
         /\ IF launched
            THEN /\ inflight' = inflight + 1
                 /\ status' = NoStatus
                 /\ UNCHANGED makespan
            ELSE /\ status' = LaunchFailure       \* except Exception: return None
                 /\ makespan' = None
                 /\ UNCHANGED inflight
    /\ UNCHANGED <<stats, num_sims, num_jobs, num_machines, algorithms, i, k, fs, reads,
                   job_writes, generated, machines_written, input, output>>

(* the simulator exits: it may have written any of `outs` to out/schedule.csv *)
ProcExit(outs) ==
    /\ pc = "running"
    /\ inflight > 0
    /\ \E code \in ExitCodes, written \in {NoFile} \cup outs :
         /\ fs' = IF written = NoFile THEN fs ELSE Write(fs, ScheduleFile, written)
         /\ inflight' = inflight - 1
         /\ status' = Exited(code)
         /\ IF CalledProcessError(code)
            THEN makespan' = None /\ pc' = "append"     \* lines 51-54
            ELSE UNCHANGED makespan /\ pc' = "read"
    /\ UNCHANGED <<stats, num_sims, num_jobs, num_machines, algorithms, i, k, cmd, attempts,
                   reads, job_writes, generated, machines_written, input, output>>

(* run_simulation, lines 59-75 *)
RunSimulation_Read ==
    /\ pc = "read"
    /\ reads' = reads + 1
    /\ makespan' = read_schedule(ReadFile(fs, ScheduleFile))
    /\ pc' = IF IsRaised(makespan') THEN "aborted" ELSE "append"
    /\ UNCHANGED <<stats, num_sims, num_jobs, num_machines, algorithms, i, k, fs, cmd, inflight,
                   status, attempts, job_writes, generated, machines_written, input,
                   output>>

(* main, lines 103-114, and the step to the next algorithm or iteration *)
Main_Append ==
    /\ pc = "append"
    /\ fs' = AppendLine(fs, MakespanLog(algorithms[k]), log_line(i, makespan))
    /\ LET nxt == next_step(i, k, Len(algorithms), num_sims)
       IN i' = nxt.i /\ k' = nxt.k /\ pc' = nxt.pc
    /\ attempts' = 0
    /\ reads' = 0
    /\ UNCHANGED <<stats, num_sims, num_jobs, num_machines, algorithms, cmd, inflight, status,
                   makespan, job_writes, generated, machines_written, input, output>>

(* what the simulator writes in the driver's runs: one record, any makespan text *)
DriverOutputs == {Csv(<<Row(t)>>) : t \in FieldTexts}
Simulator_Exit == ProcExit(DriverOutputs)

Next ==
    \/ Main_InitOutputFiles
    \/ Main_Generate
    \/ RunSimulation_Launch
    \/ Simulator_Exit
    \/ RunSimulation_Read
    \/ Main_Append

Spec == Init /\ [][Next]_vars

(* the script is never preempted for good: each step it can take, it takes *)
FairSpec == Spec /\ WF_vars(Next)

----------------------------------------------------------------------------
(* Properties of the driver, checked under Spec *)

Range(seq) == {seq[j] : j \in DOMAIN seq}
Distinct(seq) == \A a, b \in DOMAIN seq : a # b => seq[a] # seq[b]

(* the trial entries of an algorithm's makespan log: the lines after the header *)
Entries(algorithm) ==
    LET lines == ReadFile(fs, MakespanLog(algorithm)).lines
    IN SubSeq(lines, HeaderLines + 1, Len(lines))

Running == pc \in {"call", "running", "read", "append"}
ArgumentsRejected == num_jobs >= 1 /\ num_machines < 1

LogsComplete ==
    \A a \in Range(algorithms) :
        /\ Exists(fs, MakespanLog(a))
        /\ Len(Entries(a)) = num_sims
        /\ \A t \in 1..num_sims : Entries(a)[t][1] = Str(t)

(* C1 as claimed: for every algorithm list, once the loop has ended each
   algorithm's log holds exactly num_sims entries, with trial indices
   1, 2, ..., num_sims in that order. *)
C1_AsClaimed == pc = "done" => (i = num_sims /\ LogsComplete)

(* C1, amended: for every list of pairwise distinct algorithm names and every
   pattern of simulator outcomes, the loop never runs more than num_sims
   iterations, is never stopped by a simulator failure (it stops early only
   when generate_jobs rejects the arguments), always has a next step until it
   ends, gives each algorithm one entry per finished run while it runs, and
   ends after exactly num_sims iterations with each log holding the trial
   indices 1, 2, ..., num_sims in that order. *)
C1_DriverCompletes ==
    /\ i <= num_sims
    /\ pc = "aborted" => ArgumentsRejected /\ i = 0
    /\ pc \notin {"done", "aborted"} => ENABLED Next
    /\ (Running /\ Distinct(algorithms)) =>
          \A j \in DOMAIN algorithms :
              Len(Entries(algorithms[j])) = IF j < k THEN i + 1 ELSE i
    /\ (pc = "done" /\ Distinct(algorithms)) => (i = num_sims /\ LogsComplete)

(* a failed first run of the first trial, followed by the other algorithm's
   run of that trial and by both runs of the second trial *)
C1_Witness ==
    /\ pc = "done" /\ num_sims = 2 /\ algorithms = <<"basic", "best_cont">>
    /\ Entries("basic")[1] = <<"1", "FAILED">>
    /\ Entries("best_cont")[1] = <<"1", "7.0">>
    /\ Entries("basic")[2] = <<"2", "0.0">>
    /\ Entries("best_cont")[2][1] = "2"

(* C2: the step that appends to a log appends exactly one line to the log of
   the algorithm just run and touches no other file; the line carries the
   trial index and FAILED exactly when run_simulation returned None, and
   otherwise the value run_simulation returned. *)
C2_EntryMatchesReturn ==
    [][pc = "append" =>
         LET path == MakespanLog(algorithms[k])
             entry == <<Str(i + 1),
                        IF makespan = None THEN "FAILED" ELSE FloatRepr(makespan.val)>>
         IN /\ fs'[path].lines = fs[path].lines \o <<entry>>
            /\ (entry[2] = "FAILED") <=> (makespan = None)
            /\ \A q \in DOMAIN fs : q # path => fs'[q] = fs[q]]_vars

(* a log holding a FAILED entry for trial 1 and the returned value 0.0 for trial 2 *)
C2_Witness ==
    /\ pc = "done" /\ algorithms = <<"best_cont">> /\ num_sims = 2
    /\ Entries("best_cont") = <<<<"1", "FAILED">>, <<"2", "0.0">>>>
    /\ makespan = Float(0)

(* entries of all makespan logs together *)
RECURSIVE SumEntries(_)
SumEntries(names) ==
    IF names = {} THEN 0
    ELSE LET a == CHOOSE x \in names : TRUE
         IN (IF Exists(fs, MakespanLog(a)) THEN Len(Entries(a)) ELSE 0)
            + SumEntries(names \ {a})
TotalEntries == SumEntries(Range(algorithms))

(* C3: the trial index never decreases; within a trial the position in the
   algorithm list never decreases; never more than one simulator is in
   flight; and a launch is the first of its list position, starts the
   library of the algorithm at that position, and happens with no process in
   flight and with every earlier run's entry already in the logs. *)
C3_SequentialLaunches ==
    [][/\ i' >= i
       /\ (i' = i => k' >= k)
       /\ inflight' \in {0, 1}
       /\ attempts' > attempts =>
             /\ attempts = 0
             /\ inflight = 0
             /\ TotalEntries = i * Len(algorithms) + (k - 1)
             /\ cmd'.lib = "./build/lib" \o algorithms[k] \o ".so"]_vars

(* the second algorithm's simulator of the second trial is in flight *)
C3_Witness ==
    /\ pc = "running" /\ inflight = 1 /\ i = 1 /\ k = 2
    /\ algorithms = <<"best_cont", "basic">>
    /\ cmd.lib = "./build/libbasic.so"

(* C4: while the algorithms of trial i+1 run, generate_jobs has written the
   workload file exactly i+1 times (once per iteration, before the first
   run), and the file the simulator is given holds the job set generated at
   the start of this iteration. *)
C4_SharedWorkload ==
    Running =>
        /\ job_writes = i + 1
        /\ ReadFile(fs, JobFile) = generated
        /\ pc # "call" => ReadFile(fs, cmd.job_file) = generated

(* the second algorithm of the second trial runs against a one-job workload *)
C4_Witness ==
    /\ pc = "running" /\ i = 1 /\ k = 2 /\ num_jobs = 1
    /\ Len(ReadFile(fs, cmd.job_file).jobs) = 1
    /\ job_writes = 2

(* C7 as claimed: the platform file passed to the simulator is the file
   generate_machines wrote in this iteration for num_machines. *)
C7_AsClaimed ==
    pc = "running" =>
        /\ cmd.machines_file = machines_written
        /\ Exists(fs, cmd.machines_file)
        /\ Len(fs[cmd.machines_file].hosts) = num_machines + 1

(* C9 as claimed: with num_jobs < 1 or max_resource < 1 workload generation
   fails; no workload file is written and no simulator run is started. *)
C9_AsClaimed ==
    (num_jobs < 1 \/ num_machines < 1) =>
        /\ ~Running
        /\ job_writes = 0
        /\ ~Exists(fs, JobFile)
        /\ attempts = 0

(* the script ends: checked under FairSpec *)
Terminates == <>(pc \in {"done", "aborted"})

----------------------------------------------------------------------------
(* One call of run_simulation, from any state of out/schedule.csv *)

ScheduleFiles ==
    {Csv(rows) : rows \in UNION {[1..n -> RowKinds] : n \in 0..MaxRows}}

InitRun ==
    /\ num_sims = 1
    /\ num_jobs = 1
    /\ num_machines = 1
    /\ algorithms \in {<<a>> : a \in Algorithms}
    /\ pc = "call"
    /\ i = 0
    /\ k = 1
    /\ fs \in {EmptyFs} \cup {Write(EmptyFs, ScheduleFile, c) : c \in ScheduleFiles}
    /\ cmd = NoCommand
    /\ inflight = 0
    /\ status = NoStatus
    /\ makespan = None
    /\ attempts = 0
    /\ reads = 0
    /\ job_writes = 0
    /\ generated = NoFile
    /\ machines_written = ""
    /\ input = <<>>
    /\ output = <<>>
    /\ stats = <<>>

Simulator_ExitAny == ProcExit(ScheduleFiles)

NextRun ==
    \/ RunSimulation_Launch
    \/ Simulator_ExitAny
    \/ RunSimulation_Read

SpecRun == InitRun /\ [][NextRun]_vars

Returned == pc \in {"append", "aborted"}
ProcessFailed ==
    status = LaunchFailure \/ (status.kind = "exit" /\ status.code # 0)

(* C5: a call of run_simulation makes exactly one subprocess.run call, and
   when the process cannot be launched or exits with a non-zero status the
   call returns None without opening out/schedule.csv. *)
C5_FailureReturnsNone ==
    /\ attempts <= 1
    /\ Returned => attempts = 1
    /\ (Returned /\ ProcessFailed) => (pc = "append" /\ makespan = None /\ reads = 0)

(* the simulator was killed by a signal while a result file with a valid
   makespan lay in place *)
C5_Witness ==
    /\ pc = "append" /\ status = Exited(-9) /\ reads = 0
    /\ ReadFile(fs, ScheduleFile) = Csv(<<Row("7")>>)

(* C6: after an exit with status 0 the call never raises; it returns None
   when out/schedule.csv is absent, has no record, has a first record without
   the makespan field or with a makespan that is no number, and otherwise
   returns the number in the makespan field of the first record. *)
C6_ResultOfSuccessfulRun ==
    (Returned /\ status = Exited(0)) =>
        LET file == ReadFile(fs, ScheduleFile)
        IN /\ pc = "append"
           /\ reads = 1
           /\ IF \/ file = NoFile
                 \/ file.rows = <<>>
                 \/ "makespan" \notin DOMAIN file.rows[1]
                 \/ file.rows[1].makespan \notin {"0", "7"}
              THEN makespan = None
              ELSE /\ makespan.tag = "float"
                   /\ Str(makespan.val) = file.rows[1].makespan

(* two records: the first one's makespan is returned *)
C6_Witness ==
    /\ pc = "append" /\ status = Exited(0)
    /\ ReadFile(fs, ScheduleFile) = Csv(<<Row("7"), Row("0")>>)
    /\ makespan = Float(7)

----------------------------------------------------------------------------
(* One call of generate_jobs(num_jobs, max_hosts, "gen.json") *)

InitGen ==
    /\ num_sims = 0
    /\ num_jobs = 0
    /\ num_machines = 0
    /\ algorithms = <<>>
    /\ pc = "generate_jobs"
    /\ i = 0
    /\ k = 1
    /\ fs = EmptyFs
    /\ cmd = NoCommand
    /\ inflight = 0
    /\ status = NoStatus
    /\ makespan = None
    /\ attempts = 0
    /\ reads = 0
    /\ job_writes = 0
    /\ generated = NoFile
    /\ machines_written = ""
    /\ \E n \in 0..MaxJobs, h \in 0..MaxHosts :
         \E d \in Draws(n, h) : input = [num_jobs |-> n, max_hosts |-> h, draws |-> d]
    /\ output = <<>>
    /\ stats = <<>>

GenerateJobs_Call ==
    /\ pc = "generate_jobs"
    /\ output' = generate_jobs(input.num_jobs, input.max_hosts, input.draws)
    /\ IF IsRaised(output')
       THEN UNCHANGED <<fs, job_writes>>
       ELSE /\ fs' = Write(fs, "assets/generated/" \o "gen.json", output')
            /\ job_writes' = job_writes + 1
    /\ pc' = "returned"
    /\ UNCHANGED <<stats, num_sims, num_jobs, num_machines, algorithms, i, k, cmd, inflight,
                   status, makespan, attempts, reads, generated, machines_written, input>>

NextGen == GenerateJobs_Call

SpecGen == InitGen /\ [][NextGen]_vars

(* C8: for num_jobs >= 1 and max_hosts >= 1 and any draws, the job set holds
   exactly num_jobs jobs, each with 1 <= res <= max_hosts, pairwise distinct
   job ids, pairwise distinct profile ids that each resolve to a profile
   whose delay is the job's walltime, nb_res = 2 * max_hosts, and subtime 0
   for the first job. *)
C8_WorkloadShape ==
    (pc = "returned" /\ input.num_jobs >= 1 /\ input.max_hosts >= 1) =>
        /\ ~IsRaised(output)
        /\ ReadFile(fs, JobFile) = output
        /\ Len(output.jobs) = input.num_jobs
        /\ \A j \in DOMAIN output.jobs :
              /\ output.jobs[j].res >= 1
              /\ output.jobs[j].res <= input.max_hosts
              /\ output.jobs[j].profile \in DOMAIN output.profiles
              /\ output.profiles[output.jobs[j].profile].delay = output.jobs[j].walltime
        /\ \A a, b \in DOMAIN output.jobs :
              a # b => /\ output.jobs[a].id # output.jobs[b].id
                       /\ output.jobs[a].profile # output.jobs[b].profile
        /\ output.nb_res = 2 * input.max_hosts
        /\ output.jobs[1].subtime = 0

(* two jobs with different walltimes; the second drew res 2 and subtime 1 *)
C8_Witness ==
    /\ pc = "returned" /\ input.num_jobs = 2 /\ input.max_hosts = 2
    /\ output.jobs[1].walltime = 5 /\ output.jobs[2].walltime = 6
    /\ output.jobs[2].res = 2 /\ output.jobs[2].subtime = 1
    /\ output.profiles["delay2"].delay = 6

----------------------------------------------------------------------------
(* scripts/analyze_scheduler_performance.py: extract_backfill_stats.
   A line of the log is a sequence of characters. *)

Whitespace == {" ", "\n"}

RECURSIVE lstrip(_)
lstrip(chars) ==
    IF chars # <<>> /\ Head(chars) \in Whitespace THEN lstrip(Tail(chars)) ELSE chars

RECURSIVE rstrip(_)
rstrip(chars) ==
    IF chars # <<>> /\ chars[Len(chars)] \in Whitespace
    THEN rstrip(SubSeq(chars, 1, Len(chars) - 1)) ELSE chars

(* str.strip() *)
strip(chars) == rstrip(lstrip(chars))

(* str.split(sep) with a one-character separator *)
RECURSIVE split_from(_, _, _, _)
split_from(chars, sep, piece, pieces) ==
    IF chars = <<>> THEN Append(pieces, piece)
    ELSE IF Head(chars) = sep THEN split_from(Tail(chars), sep, <<>>, Append(pieces, piece))
    ELSE split_from(Tail(chars), sep, Append(piece, Head(chars)), pieces)

split(chars, sep) == split_from(chars, sep, <<>>, <<>>)

IsDigits(chars) == chars # <<>> /\ \A j \in DOMAIN chars : chars[j] \in Range(Digit)
DigitValue(c) == (CHOOSE d \in DOMAIN Digit : Digit[d] = c) - 1

RECURSIVE DecimalValue(_)
DecimalValue(chars) ==
    IF chars = <<>> THEN 0
    ELSE 10 * DecimalValue(SubSeq(chars, 1, Len(chars) - 1)) + DigitValue(chars[Len(chars)])

(* int(piece) of a piece that holds no whitespace *)
PyInt(v) == [tag |-> "int", val |-> v]
int(chars) == IF IsDigits(chars) THEN PyInt(DecimalValue(chars)) ELSE Raised("ValueError")

Tuple(a, b, c) == [tag |-> "tuple", val |-> <<a, b, c>>]

(* line 29-30: the body of the loop, for one line *)
parse_line(text) ==
    LET line == split(strip(text), " ")
    IN IF IsRaised(int(line[1])) THEN Raised("ValueError")
       ELSE IF Len(line) < 2 THEN Raised("IndexError")
       ELSE IF IsRaised(int(line[2])) THEN Raised("ValueError")
       ELSE IF Len(line) < 3 THEN Raised("IndexError")
       ELSE IF IsRaised(int(line[3])) THEN Raised("ValueError")
       ELSE Tuple(int(line[1]).val, int(line[2]).val, int(line[3]).val)

extract_backfill_stats_unchecked(f, log_file) ==
    IF ~Exists(f, log_file) THEN Raised("FileNotFoundError")
    ELSE LET lines == f[log_file].lines
         IN IF lines = <<>> THEN None
            ELSE parse_line(lines[Len(lines)])

(* lines 20-30: `for line in reversed(lines)` returns in its first iteration *)
extract_backfill_stats(f, log_file) ==
    IF ~Exists(f, log_file) THEN None
    ELSE LET lines == f[log_file].lines
         IN IF lines = <<>> THEN None
            ELSE parse_line(lines[Len(lines)])

(* the log lines of the model: up to MaxTokens pieces joined by single spaces,
   a piece being empty, a number or a word, and the line feed readlines keeps *)
Pieces == {<<>>, <<"1", "2">>, <<"x">>}

RECURSIVE Join(_)
Join(pieces) ==
    IF pieces = <<>> THEN <<>>
    ELSE IF Len(pieces) = 1 THEN pieces[1]
    ELSE pieces[1] \o <<" ">> \o Join(Tail(pieces))

LogLines ==
    {Join(ps) \o <<"\n">> : ps \in UNION {[1..n -> Pieces] : n \in 0..MaxTokens}}

(* the logs of the model: no line, one line, two lines *)
LogTexts == {<<>>} \cup {<<a>> : a \in LogLines} \cup {<<a, b>> : a, b \in LogLines}

LogFile == "./out/basic_log.txt"

InitBackfill ==
    /\ num_sims = 0
    /\ num_jobs = 0
    /\ num_machines = 0
    /\ algorithms = <<>>
    /\ pc = "extract_backfill_stats"
    /\ i = 0
    /\ k = 1
    /\ fs \in {EmptyFs}
              \cup {Write(EmptyFs, LogFile, [kind |-> "text", lines |-> t]) : t \in LogTexts}
    /\ cmd = NoCommand
    /\ inflight = 0
    /\ status = NoStatus
    /\ makespan = None
    /\ attempts = 0
    /\ reads = 0
    /\ job_writes = 0
    /\ generated = NoFile
    /\ machines_written = ""
    /\ input = [log_file |-> LogFile]
    /\ output = <<>>
    /\ stats = <<>>

ExtractBackfillStats_Call ==
    /\ pc = "extract_backfill_stats"
    /\ output' = extract_backfill_stats(fs, input.log_file)
    /\ pc' = "returned"
    /\ UNCHANGED <<stats, num_sims, num_jobs, num_machines, algorithms, i, k, fs, cmd, inflight,
                   status, makespan, attempts, reads, job_writes, generated,
                   machines_written, input>>

(* analyze_scheduler_performance, lines 68-72: an exception of the call goes
   through; any other result is tested with `if backfill_stats:` *)
Truthy(v) == v # None /\ (v.tag = "tuple" => v.val # <<>>)
unpack_backfill_stats(backfill_stats) ==
    IF Truthy(backfill_stats) THEN backfill_stats.val ELSE <<0, 0, 0>>

Analyze_UnpackBackfillStats ==
    /\ pc = "returned"
    /\ IF IsRaised(output)
       THEN pc' = "aborted" /\ UNCHANGED stats
       ELSE pc' = "analyzed" /\ stats' = unpack_backfill_stats(output)
    /\ UNCHANGED <<num_sims, num_jobs, num_machines, algorithms, i, k, fs, cmd, inflight,
                   status, makespan, attempts, reads, job_writes, generated,
                   machines_written, input, output>>

NextBackfill ==
    \/ ExtractBackfillStats_Call
    \/ Analyze_UnpackBackfillStats

SpecBackfill == InitBackfill /\ [][NextBackfill]_vars

(* the pieces of a line between runs of whitespace *)
NonEmpty(piece) == piece # <<>>
Fields(text) == SelectSeq(split(strip(text), " "), NonEmpty)
ThreeIntegers(text) ==
    Len(Fields(text)) = 3 /\ \A j \in 1..3 : IsDigits(Fields(text)[j])

RECURSIVE LastThreeIntegers(_)
LastThreeIntegers(lines) ==
    IF lines = <<>> THEN None
    ELSE LET text == lines[Len(lines)]
         IN IF ThreeIntegers(text)
            THEN Tuple(DecimalValue(Fields(text)[1]), DecimalValue(Fields(text)[2]),
                       DecimalValue(Fields(text)[3]))
            ELSE LastThreeIntegers(SubSeq(lines, 1, Len(lines) - 1))

(* C10 as claimed: for an existing log, the call returns the three integers
   of the last line made of exactly three whitespace-separated integers,
   skipping later lines of another form; None when no line has that form; it
   never raises. *)
C10_AsClaimed ==
    (pc = "returned" /\ Exists(fs, input.log_file)) =>
        output = LastThreeIntegers(fs[input.log_file].lines)

(* C11: the call returns None when the log path does not exist and when the
   log exists and holds no line, and analyze_scheduler_performance then goes
   on with the counters (0, 0, 0). *)
C11_AbsentMeansZero ==
    (pc # "extract_backfill_stats"
       /\ (~Exists(fs, input.log_file) \/ fs[input.log_file].lines = <<>>)) =>
        /\ output = None
        /\ pc \in {"returned", "analyzed"}
        /\ pc = "analyzed" => stats = <<0, 0, 0>>

(* the caller has gone on after a call on a path that does not exist *)
C11_Witness ==
    /\ pc = "analyzed" /\ ~Exists(fs, input.log_file)
    /\ output = None /\ stats = <<0, 0, 0>>

(* C14: when the simulator of a run could not be launched or exited with a
   non-zero status, the line appended for that run is FAILED, whatever
   makespan an earlier run left in out/schedule.csv. Checked under Spec. *)
C14_StaleResultNotRecorded ==
    [][(pc = "append" /\ ProcessFailed) =>
         LET lines == fs'[MakespanLog(algorithms[k])].lines
         IN lines[Len(lines)] = <<Str(i + 1), "FAILED">>]_vars

(* trial 1 left makespan 7 in out/schedule.csv; the simulator of trial 2 exited
   with status 1 without touching the file, and trial 2 is logged as FAILED *)
C14_Witness ==
    /\ pc = "done" /\ num_sims = 2 /\ algorithms = <<"basic">>
    /\ status = Exited(1)
    /\ ReadFile(fs, ScheduleFile) = Csv(<<Row("7")>>)
    /\ Entries("basic") = <<<<"1", "7.0">>, <<"2", "FAILED">>>>

----------------------------------------------------------------------------
(* scripts/plot_makespan.py: read_makespan_data and create_comparison_plot,
   as main uses them for its first comparison (basic against best_cont).
   A makespan is a float holding a whole number. *)

LogValues == {0, 10000, 10001, 20000}
LogTokens == {"FAILED"} \cup {FloatRepr(v) : v \in LogValues}

(* float(text) of the second field of a log line *)
float_of_repr(text) ==
    IF \E v \in LogValues : FloatRepr(v) = text
    THEN Float(CHOOSE v \in LogValues : FloatRepr(v) = text)
    ELSE Raised("ValueError")

(* lines 26-33: the loop over the lines after the header *)
RECURSIVE read_lines(_, _)
read_lines(lines, data) ==
    IF lines = <<>> THEN data
    ELSE LET line == Head(lines)
         IN IF Len(line) # 2 THEN read_lines(Tail(lines), data)      \* ValueError: continue
            ELSE IF line[2] = "FAILED" THEN read_lines(Tail(lines), data)
            ELSE IF IsRaised(float_of_repr(line[2])) THEN read_lines(Tail(lines), data)
            ELSE read_lines(Tail(lines), Append(data, float_of_repr(line[2]).val))

(* np.array(data) *)
NdArray(values) == [tag |-> "ndarray", val |-> values]

(* read_makespan_data: the array of the values, or the exception *)
read_makespan_data(f, filename) ==
    IF ~Exists(f, filename) THEN Raised("FileNotFoundError")
    ELSE IF Len(f[filename].lines) < SkippedLines THEN Raised("StopIteration")
    ELSE NdArray(read_lines(SubSeq(f[filename].lines, SkippedLines + 1,
                                   Len(f[filename].lines)), <<>>))

Abs(x) == IF x < 0 THEN -x ELSE x

RECURSIVE GCD(_, _)
GCD(a, b) == IF b = 0 THEN a ELSE GCD(b, a % b)
LCM(a, b) == (a \div GCD(a, b)) * b

RECURSIVE LCMOf(_)
LCMOf(values) == IF values = <<>> THEN 1 ELSE LCM(Head(values), LCMOf(Tail(values)))

(* sum over j of (b[j] - a[j]) / a[j], as a numerator over the denominator den *)
RECURSIVE SumOver(_, _, _)
SumOver(a, b, den) ==
    IF a = <<>> THEN 0
    ELSE (Head(b) - Head(a)) * (den \div Head(a)) + SumOver(Tail(a), Tail(b), den)

NaN == [tag |-> "nan"]

(* lines 47-48: np.mean(((data2 - data1) / data1) * 100), the exact value
   100 * num / den; the mean of an empty array is nan *)
mean_percent_difference(a, b) ==
    IF a = <<>> THEN NaN
    ELSE LET den == LCMOf(a)
         IN [tag |-> "percent", num |-> SumOver(a, b, den), den |-> den * Len(a)]

(* array[mask] *)
RECURSIVE Masked(_, _)
Masked(array, mask) ==
    IF array = <<>> THEN <<>>
    ELSE (IF Head(mask) THEN <<Head(array)>> ELSE <<>>) \o Masked(Tail(array), Tail(mask))

(* sum(mask) *)
RECURSIVE CountTrue(_)
CountTrue(mask) ==
    IF mask = <<>> THEN 0 ELSE (IF Head(mask) THEN 1 ELSE 0) + CountTrue(Tail(mask))

(* lines 63-65, for one pair (a from data1_filtered, b from data2_filtered).
   np.isclose(b, a, rtol=0.0001) is |b - a| <= 1e-08 + 0.0001 * |a|, which for
   whole numbers is 10000 * |b - a| <= |a| *)
better(a, b) == b < a
worse(a, b) == b > a
isclose(b, a) == RtolInverse * Abs(b - a) <= Abs(a)

(* create_comparison_plot up to the statistics it prints: arrays of different
   lengths make the mask or the indexing raise; an empty filtered array makes
   min() raise at line 51 *)
create_comparison_plot(data1, data2) ==
    IF Len(data1.val) # Len(data2.val)
    THEN (IF Len(data1.val) = 1 \/ Len(data2.val) = 1
          THEN Raised("IndexError") ELSE Raised("ValueError"))
    ELSE LET mask == [j \in DOMAIN data1.val |->
                        data1.val[j] > Threshold /\ data2.val[j] > Threshold]
             data1_filtered == Masked(data1.val, mask)
             data2_filtered == Masked(data2.val, mask)
             n == Len(data1_filtered)
         IN IF n = 0 THEN Raised("ValueError")
            ELSE [tag |-> "plot",
                  data1_filtered |-> data1_filtered,
                  data2_filtered |-> data2_filtered,
                  avg_diff |-> mean_percent_difference(data1_filtered, data2_filtered),
                  better |-> CountTrue([j \in 1..n |->
                                 better(data1_filtered[j], data2_filtered[j])]),
                  worse |-> CountTrue([j \in 1..n |->
                                 worse(data1_filtered[j], data2_filtered[j])]),
                  equal |-> CountTrue([j \in 1..n |->
                                 isclose(data2_filtered[j], data1_filtered[j])])]

(* a makespan log as the driver leaves it after n trials *)
DriverLog(algorithm, texts) ==
    [kind |-> "text",
     lines |-> Header("Makespan", algorithm, <<"makespan">>)
               \o [t \in DOMAIN texts |-> <<Str(t), texts[t]>>]]

InitCompare ==
    /\ num_sims \in 0..MaxTrials
    /\ num_jobs = 1
    /\ num_machines = 1
    /\ algorithms = <<"basic", "best_cont">>
    /\ pc = "plot_main"
    /\ i = num_sims
    /\ k = 1
    /\ \E t1, t2 \in [1..num_sims -> LogTokens] :
         fs = Write(Write(Write(EmptyFs,
                                MakespanLog("basic"), DriverLog("basic", t1)),
                          MakespanLog("best_cont"), DriverLog("best_cont", t2)),
                    MakespanLog("force_cont"), DriverLog("force_cont", t1))
    /\ cmd = NoCommand
    /\ inflight = 0
    /\ status = NoStatus
    /\ makespan = None
    /\ attempts = 0
    /\ reads = 0
    /\ job_writes = 0
    /\ generated = NoFile
    /\ machines_written = ""
    /\ input = <<>>
    /\ output = <<>>
    /\ stats = <<>>

(* main, lines 106-108 *)
PlotMain_Read ==
    /\ pc = "plot_main"
    /\ LET basic_data == read_makespan_data(fs, "res/makespan/basic_temp.txt")
           best_cont_data == read_makespan_data(fs, "res/makespan/best_cont_temp.txt")
           force_cont_data == read_makespan_data(fs, "res/makespan/force_cont_temp.txt")
       IN IF IsRaised(basic_data) \/ IsRaised(best_cont_data) \/ IsRaised(force_cont_data)
          THEN pc' = "aborted" /\ UNCHANGED input
          ELSE pc' = "compare" /\ input' = [data1 |-> basic_data, data2 |-> best_cont_data]
    /\ UNCHANGED <<stats, num_sims, num_jobs, num_machines, algorithms, i, k, fs, cmd,
                   inflight, status, makespan, attempts, reads, job_writes, generated,
                   machines_written, output>>

(* main, lines 114-119 *)
PlotMain_Compare ==
    /\ pc = "compare"
    /\ output' = create_comparison_plot(input.data1, input.data2)
    /\ pc' = IF IsRaised(output') THEN "aborted" ELSE "compared"
    /\ UNCHANGED <<stats, num_sims, num_jobs, num_machines, algorithms, i, k, fs, cmd,
                   inflight, status, makespan, attempts, reads, job_writes, generated,
                   machines_written, input>>

NextCompare ==
    \/ PlotMain_Read
    \/ PlotMain_Compare

SpecCompare == InitCompare /\ [][NextCompare]_vars

(* the trial numbers of the lines of a log that read_makespan_data keeps *)
KeptTrials(algorithm) == SelectSeq([t \in DOMAIN Entries(algorithm) |->
                                      IF Entries(algorithm)[t][2] = "FAILED"
                                      THEN "" ELSE Entries(algorithm)[t][1]],
                                   LAMBDA x : x # "")
Compared == pc \in {"compared", "aborted"}

(* C12 as claimed: when two logs of the driver are compared, the k-th values
   of the two series come from the same trial and the filter keeps the same
   positions of both; series of different lengths are rejected. *)
C12_AsClaimed ==
    /\ (Compared /\ Len(input.data1.val) # Len(input.data2.val)) => pc = "aborted"
    /\ pc = "compared" =>
          /\ KeptTrials("basic") = KeptTrials("best_cont")
          /\ Len(output.data1_filtered) = Len(output.data2_filtered)

(* C13 as claimed: for every series, the comparison with an identical copy
   counts every surviving pair as equal, none as better or worse, and has a
   mean percent difference of 0. *)
C13_AsClaimed ==
    (Compared /\ input.data1 = input.data2) =>
        /\ pc = "compared"
        /\ output.equal = Len(output.data1_filtered)
        /\ output.better = 0
        /\ output.worse = 0
        /\ output.avg_diff.tag = "percent" /\ output.avg_diff.num = 0

(* What the code does keep of the self-comparison: a series with at least one
   value above the filter threshold, compared with an identical copy, has
   every surviving pair counted as equal, none as better or worse, and a mean
   percent difference of 0. *)
C13_SelfComparison ==
    (Compared /\ input.data1 = input.data2
       /\ \E j \in DOMAIN input.data1.val : input.data1.val[j] > Threshold) =>
        /\ pc = "compared"
        /\ output.data1_filtered =
              SelectSeq(input.data1.val, LAMBDA v : v > Threshold)
        /\ output.equal = Len(output.data1_filtered)
        /\ output.better = 0
        /\ output.worse = 0
        /\ output.avg_diff.tag = "percent" /\ output.avg_diff.num = 0

(* a series of one surviving and one filtered value, compared with itself *)
SelfComparisonMade ==
    /\ pc = "compared" /\ input.data1 = input.data2
    /\ input.data1.val = <<0, 10000>>
    /\ output.equal = 1

(* C15 as claimed: every surviving pair is counted in exactly one of better,
   worse and equal, so the three counts add up to the number of surviving
   pairs. *)
C15_AsClaimed ==
    pc = "compared" =>
        output.better + output.worse + output.equal = Len(output.data1_filtered)

====
